---- MODULE Spec2Model ----
(***************************************************************************)
(* Multi-frame spatial cache of NextPoints: the offset allocator, the      *)
(* frame cache entry ("World", world.js) and the cache manager ("Data",    *)
(* public/js/data.js).  The lines given for world.js and ego_pose.js are   *)
(* those of src/unnamed/part_006, which holds both.                        *)
(***************************************************************************)
EXTENDS Integers, Sequences, FiniteSets, TLC

(***************************************************************************)
(* Bounds of the model                                                     *)
(***************************************************************************)
\* most cells a client of the allocator holds at once (SpecAlloc)
MaxAlive == 6
\* most World objects ever constructed (Spec)
MaxWorlds == 2
\* most getWorld calls suspended at the metadata await at once
MaxPending == 1
\* the same in SpecGet, where the calls run concurrently
MaxConcurrent == 2
\* World objects constructed beyond one preload window (SpecPreload)
MaxExtra == 4
\* most edits made to the boxes of one entry (SpecSave)
MaxEdits == 2
\* most save requests in flight at once (SpecSave)
MaxRequests == 2
\* most cells a client of the allocator holds at once in SpecRing
MaxRingAlive == 26
\* the bits of the significand of a number (a double has 53)
MantissaBits == 7

(***************************************************************************)
(* Program constants                                                       *)
(***************************************************************************)
MaxWorldNumber == 80
\* data.js:17
worldGap == 1000

\* most World objects ever constructed in SpecPreload
PreloadSlots == MaxWorldNumber + MaxExtra

VARIABLES
    offsetList,         \* Data.offsetList: the free pool, a stack of cells
    lastSeedOffset,     \* Data.lastSeedOffset
    offsetsAliveCount,  \* Data.offsetsAliveCount
    held,               \* cells handed out by allocateOffset and not yet returned
    worlds,             \* the World objects ever constructed, by creation number
    createWorldIndex,   \* Data.createWorldIndex
    worldList,          \* Data.worldList: the registered entries, in order
    world,              \* Data.world: the current entry (0 is null)
    refEgoPose,         \* Data.refEgoPose: scene -> reference pose
    meta,               \* Data.meta: the scenes whose metadata is cached
    pending,            \* getWorld calls suspended at await readSceneMetaData
    mainScene,          \* children of Data.webglMainScene: attached webglGroups
    log,                \* what the last step did, in execution order
    xform,              \* a transform computation: its inputs and results
    save                \* save.js: the delay timer, the pending list, the
                        \* requests in flight, and what the entries and the
                        \* server hold

allocVars == <<offsetList, lastSeedOffset, offsetsAliveCount>>

worldVars == <<worlds, createWorldIndex, worldList, world, refEgoPose, meta,
               pending, mainScene, log>>

(***************************************************************************)
(* Offset allocator: Data.allocateOffset / Data.returnOffset               *)
(***************************************************************************)
Origin == <<0, 0, 0>>

RemoveAt(s, k) == SubSeq(s, 1, k - 1) \o SubSeq(s, k + 1, Len(s))

\* a seed that steps back towards the origin off the diagonal
NextSeedInwards(seed) ==
    IF seed[1] = seed[2] THEN <<seed[1] + 1, 0, 0>>
                         ELSE <<seed[1] - 1, seed[2], 0>>

\* data.js:65-72  the seed of the next ring
NextSeed(seed) ==
    IF seed[1] = seed[2] THEN <<seed[1] + 1, 0, 0>>
                         ELSE <<seed[1], seed[2] + 1, 0>>

\* data.js:73-76  the eight sign/swap variants of the seed, in source order
NewOffsets(seed) ==
    LET x == seed[1]
        y == seed[2]
    IN << <<x, y, 0>>, <<-x, y, 0>>, <<x, -y, 0>>, <<-x, -y, 0>>,
          <<y, x, 0>>, <<-y, x, 0>>, <<y, -x, 0>>, <<-y, -x, 0>> >>

\* data.js:79  Array.prototype.includes compares with SameValueZero, which for
\* two arrays is object identity.  Every element of newOffsets is an array
\* literal built in this call, so it is identical to no element of offsetList.
Includes(list, offset) == FALSE

\* data.js:78-80  push every variant that offsetList does not include
RECURSIVE PushNew(_, _)
PushNew(list, new) ==
    IF new = <<>> THEN list
    ELSE PushNew(IF Includes(list, Head(new)) THEN list ELSE Append(list, Head(new)),
                 Tail(new))

\* allocateOffset without the reset of data.js:57-60
allocateOffsetWithoutReset(a) ==
    LET a2 == IF Len(a.offsetList) = 0
              THEN LET seed == NextSeed(a.lastSeedOffset)
                   IN [a EXCEPT !.lastSeedOffset = seed,
                                !.offsetList = PushNew(a.offsetList, NewOffsets(seed))]
              ELSE a
        n == Len(a2.offsetList)
    IN [a |-> [a2 EXCEPT !.offsetsAliveCount = a2.offsetsAliveCount + 1,
                         !.offsetList = SubSeq(a2.offsetList, 1, n - 1)],
        cell |-> a2.offsetList[n]]

\* data.js:56-85  on a record a that carries the allocator's fields; returns
\* [a |-> the record after the call, cell |-> the cell returned]
allocateOffset(a) ==
    LET a1 == IF a.offsetsAliveCount = 0
              THEN [a EXCEPT !.offsetList = <<Origin>>, !.lastSeedOffset = Origin]
              ELSE a
        a2 == IF Len(a1.offsetList) = 0
              THEN LET seed == NextSeed(a1.lastSeedOffset)
                   IN [a1 EXCEPT !.lastSeedOffset = seed,
                                 !.offsetList = PushNew(a1.offsetList, NewOffsets(seed))]
              ELSE a1
        n == Len(a2.offsetList)
    IN [a |-> [a2 EXCEPT !.offsetsAliveCount = a2.offsetsAliveCount + 1,
                         !.offsetList = SubSeq(a2.offsetList, 1, n - 1)],
        cell |-> a2.offsetList[n]]

\* data.js:87-90
returnOffset(a, offset) ==
    [a EXCEPT !.offsetList = Append(a.offsetList, offset),
              !.offsetsAliveCount = a.offsetsAliveCount - 1]

(***************************************************************************)
(* Scenes: what readSceneMetaData would fetch (data.js:264-304)            *)
(***************************************************************************)
ManagerScenes == {"A", "B"}
EntryScenes == {"C"}
Scenes == ManagerScenes \cup EntryScenes

\* the frames callers ask for; a frame's id stands for its index in
\* meta.frames (FrameInfo.frame_index, world.js:103)
Requests == {<<"A", 0>>, <<"A", MaxWorldNumber + 1>>, <<"B", 0>>}

\* meta.frames.length: scene A is longer than the preload window, the other
\* scenes have two frames
FrameCount(scene) == IF scene = "A" THEN MaxWorldNumber + 2 ELSE 2

\* sceneMeta.camera: scenes A and B have no camera, scene C has one
CameraNames(scene) == IF scene \in ManagerScenes THEN {} ELSE {"front"}

\* frameDetails[frame].pose: scenes A and B carry their poses in the metadata,
\* the poses of scene C are requested from /api/projects/get_ego_pose
PoseInMeta(scene) == scene \in ManagerScenes

\* the translation of the pose of a frame
PoseTranslation(scene, frame) ==
    <<IF scene = "A" THEN 10 ELSE 20, frame + 1, 0>>

NoPose == <<>>
NoWorld == 0

(***************************************************************************)
(* World (world.js)                                                        *)
(***************************************************************************)
\* on_finished: null, or the caller's callback, which touches no entry
NullCallback == "null"
PlainCallback == "callback"

\* the closure data.js:259-261 passes as destroy_old_world, by what a call
\* of it does: old.unload() for the entry `unloads`, or nothing
NoClosure == [set |-> FALSE, unloads |-> NoWorld]
DestroyOldClosure(old, dontDestroyOld) ==
    [set |-> TRUE,
     unloads |-> IF ~dontDestroyOld /\ old # NoWorld THEN old ELSE NoWorld]

\* an entry right after the field initialisers of the constructor
\* (world.js:183-206), before this.preload() runs
NewWorld(scene, frame, cell, hasCallback) ==
    [scene |-> scene, frame |-> frame, offsetIndex |-> cell,
     on_preload_finished |-> hasCallback,
     lidarPreloaded |-> FALSE, annotationPreloaded |-> FALSE,
     modified |-> FALSE,
     egoPosePreloaded |-> FALSE, egoPose |-> NoPose,
     loaded_flag |-> {},
     active |-> FALSE, everythingDone |-> FALSE, destroyed |-> FALSE,
     destroy_old_world |-> NoClosure, on_finished |-> NullCallback,
     trans_lidar_utm |-> <<>>,
     calcCount |-> 0, preloadedCount |-> 0]

\* a slot of `worlds` no constructor has filled yet
Blank == NewWorld("", 0, Origin, FALSE)

\* the log keeps what the last step did to the render scene, to the
\* entries' resources and to the free pool, in execution order, and what it
\* handed its caller; "evict" and "purge" open the forEach callbacks of
\* deleteDistantWorlds and deleteOtherWorldsExcept, "preloaded" the body of
\* on_subitem_preload_finished
Note(D, what, i) == [D EXCEPT !.log = Append(@, <<what, i>>)]

\* preloaded() that waits for a pose to be there
preloadedNeedingPose(w) ==
    w.lidarPreloaded /\ w.annotationPreloaded /\ w.egoPosePreloaded
        /\ w.egoPose # NoPose

\* world.js:214-218
preloaded(w) == w.lidarPreloaded /\ w.annotationPreloaded /\ w.egoPosePreloaded

\* world.js:143-145
loaded(w) == \A name \in CameraNames(w.scene) : name \in w.loaded_flag

\* getRefEgoPose() storing the pose of every caller
getRefEgoPoseOverwriting(D, sceneName, currentPose) ==
    [D EXCEPT !.refEgoPose[sceneName] = currentPose]

\* data.js:148-150
getRefEgoPose(D, sceneName, currentPose) ==
    IF D.refEgoPose[sceneName] # NoPose THEN D
    ELSE [D EXCEPT !.refEgoPose[sceneName] = currentPose]

\* data.js:160-162
removeRefEgoPoseOfScene(D, sceneName) ==
    [D EXCEPT !.refEgoPose[sceneName] = NoPose]

\* calcTransformMatrix() placing the entry at its raw pose translation
calcTransformMatrixRawPose(D, i) ==
    LET w == D.worlds[i]
    IN IF w.egoPose # NoPose
       THEN LET D2 == getRefEgoPose(D, w.scene, w.egoPose)
            IN [D2 EXCEPT !.worlds[i].trans_lidar_utm = w.egoPose,
                          !.worlds[i].calcCount = @ + 1]
       ELSE [D EXCEPT !.worlds[i].trans_lidar_utm = <<0, 0, 0>>,
                       !.worlds[i].calcCount = @ + 1]

\* world.js:237-274, the translation of trans_lidar_utm
calcTransformMatrix(D, i) ==
    LET w == D.worlds[i]
    IN IF w.egoPose # NoPose
       THEN LET D2 == getRefEgoPose(D, w.scene, w.egoPose)
                ref == D2.refEgoPose[w.scene]
                posDelta == <<w.egoPose[1] - ref[1], w.egoPose[2] - ref[2],
                              w.egoPose[3] - ref[3]>>
            IN [D2 EXCEPT !.worlds[i].trans_lidar_utm = posDelta,
                          !.worlds[i].calcCount = @ + 1]
       ELSE [D EXCEPT !.worlds[i].trans_lidar_utm = <<0, 0, 0>>,
                       !.worlds[i].calcCount = @ + 1]

\* world.js:309  lidar.unload() takes the points out of the render scene and
\* keeps what the loader holds
lidarUnload(D, i) == D

\* world.js:310  annotation.unload() takes the boxes out of the render scene
\* and keeps what the loader holds
annotationUnload(D, i) == D

\* unload() that leaves everythingDone as it is
unloadKeepingDone(D, i) ==
    IF D.worlds[i].everythingDone
    THEN [Note(D, "scene.remove", i) EXCEPT
             !.mainScene = @ \ {i},
             !.worlds[i].active = FALSE]
    ELSE D

\* unload() that also marks the entry destroyed
unloadDestroying(D, i) ==
    IF D.worlds[i].everythingDone
    THEN [Note(D, "scene.remove", i) EXCEPT
             !.mainScene = @ \ {i},
             !.worlds[i].active = FALSE,
             !.worlds[i].everythingDone = FALSE,
             !.worlds[i].destroyed = TRUE]
    ELSE D

\* world.js:307-315
unload(D, i) ==
    IF D.worlds[i].everythingDone
    THEN [Note(annotationUnload(lidarUnload(D, i), i), "scene.remove", i) EXCEPT
             !.mainScene = @ \ {i},
             !.worlds[i].active = FALSE,
             !.worlds[i].everythingDone = FALSE]
    ELSE D

\* deleteAll() without the test of world.js:320
deleteAllUnguarded(D, i) ==
    LET D1 == Note(D, "deleteAll", i)
        D2 == IF D1.worlds[i].everythingDone
              THEN [Note(D1, "scene.remove", i) EXCEPT
                       !.mainScene = @ \ {i},
                       !.worlds[i].active = FALSE,
                       !.worlds[i].everythingDone = FALSE]
              ELSE D1
    IN [Note(D2, "release", i) EXCEPT !.worlds[i].destroyed = TRUE]

\* world.js:317-324
deleteAll(D, i) ==
    LET D1 == Note(D, "deleteAll", i)
        D2 == IF D1.worlds[i].everythingDone THEN unload(D1, i) ELSE D1
    IN IF D2.worlds[i].destroyed THEN D2
       ELSE [Note(D2, "release", i) EXCEPT !.worlds[i].destroyed = TRUE]

\* world.js:291 and data.js:260  this.destroy_old_world?.()
CallDestroyOld(D, i) ==
    LET c == D.worlds[i].destroy_old_world
    IN IF ~c.set THEN D
       ELSE IF c.unloads # NoWorld
       THEN unload(Note(D, "destroy_old_world", i), c.unloads)
       ELSE Note(D, "destroy_old_world", i)

\* world.js:286, 302  this.on_finished?.()
CallOnFinished(D, i) ==
    IF D.worlds[i].on_finished = NullCallback THEN D
    ELSE Note(D, "on_finished", i)

\* go() without the test of the destroyed flag (world.js:292-295 left out)
goIgnoringDestroyed(D, i) ==
    IF D.worlds[i].everythingDone THEN CallOnFinished(D, i)
    ELSE IF preloaded(D.worlds[i])
    THEN LET D1 == CallDestroyOld(D, i)
             D2 == [Note(D1, "scene.add", i) EXCEPT !.mainScene = @ \cup {i}]
             D3 == CallOnFinished(D2, i)
         IN [D3 EXCEPT !.worlds[i].everythingDone = TRUE]
    ELSE D

\* go() attaching the entry before it calls destroy_old_world
goAttachingFirst(D, i) ==
    IF D.worlds[i].everythingDone THEN CallOnFinished(D, i)
    ELSE IF preloaded(D.worlds[i])
    THEN IF D.worlds[i].destroyed THEN unload(CallDestroyOld(D, i), i)
         ELSE LET D1 == [Note(D, "scene.add", i) EXCEPT !.mainScene = @ \cup {i}]
                  D2 == CallDestroyOld(D1, i)
                  D3 == CallOnFinished(D2, i)
              IN [D3 EXCEPT !.worlds[i].everythingDone = TRUE]
    ELSE D

\* world.js:284-305
go(D, i) ==
    IF D.worlds[i].everythingDone THEN CallOnFinished(D, i)
    ELSE IF preloaded(D.worlds[i])
    THEN LET D1 == CallDestroyOld(D, i)
         IN IF D1.worlds[i].destroyed THEN unload(D1, i)
            ELSE LET D2 == [Note(D1, "scene.add", i) EXCEPT !.mainScene = @ \cup {i}]
                     D3 == CallOnFinished(D2, i)
                 IN [D3 EXCEPT !.worlds[i].everythingDone = TRUE]
    ELSE D

\* world.js:276-282
activate(D, i, destroy_old_world, on_finished) ==
    LET D1 == [D EXCEPT !.worlds[i].active = TRUE,
                        !.worlds[i].destroy_old_world = destroy_old_world,
                        !.worlds[i].on_finished = on_finished]
    IN IF preloaded(D1.worlds[i]) THEN go(D1, i) ELSE D1

\* data.js:256-262
activate_world(D, i, onFinished, dontDestroyOld) ==
    LET old == D.world
        D1 == [D EXCEPT !.world = i]
    IN activate(D1, i, DestroyOldClosure(old, dontDestroyOld), onFinished)

\* on_subitem_preload_finished without the call of go() (world.js:233)
onSubitemWithoutGo(D, i) ==
    IF preloaded(D.worlds[i])
    THEN LET D1 == calcTransformMatrix(Note(D, "preloaded", i), i)
         IN IF D1.worlds[i].on_preload_finished
            THEN [D1 EXCEPT !.worlds[i].preloadedCount = @ + 1]
            ELSE D1
    ELSE D

\* world.js:228-235
on_subitem_preload_finished(D, i) ==
    IF preloaded(D.worlds[i])
    THEN LET D1 == calcTransformMatrix(Note(D, "preloaded", i), i)
             D2 == IF D1.worlds[i].on_preload_finished
                   THEN [D1 EXCEPT !.worlds[i].preloadedCount = @ + 1]
                   ELSE D1
         IN IF D2.worlds[i].active THEN go(D2, i) ELSE D2
    ELSE D

\* ego_pose.js:11-28  EgoPose.preload, called by the constructor
egoPosePreload(D, i) ==
    LET w == D.worlds[i]
    IN IF PoseInMeta(w.scene)
       THEN on_subitem_preload_finished(
                [D EXCEPT !.worlds[i].egoPose = PoseTranslation(w.scene, w.frame),
                          !.worlds[i].egoPosePreloaded = TRUE], i)
       ELSE D

(***************************************************************************)
(* The four matrices of an entry (world.js:237-274, 340-346)               *)
(*                                                                         *)
(* Numbers are floating-point numbers with a significand of MantissaBits   *)
(* bits and whole values; every sum and product is rounded to the nearest  *)
(* such number, ties to even, as the sums and products of doubles are.     *)
(* Rotations are quarter turns about z, whose matrices hold 0, 1 and -1.   *)
(***************************************************************************)
RECURSIVE Pow2(_)
Pow2(n) == IF n = 0 THEN 1 ELSE 2 * Pow2(n - 1)

\* the number of binary digits of a natural number
RECURSIVE Bits(_)
Bits(a) == IF a = 0 THEN 0 ELSE 1 + Bits(a \div 2)

\* the floating-point number nearest to x
Fl(x) ==
    LET a == IF x < 0 THEN -x ELSE x
        n == Bits(a)
    IN IF n <= MantissaBits THEN x
       ELSE LET q == Pow2(n - MantissaBits)
                down == (a \div q) * q
                r == a - down
                near == IF 2 * r > q \/ (2 * r = q /\ (a \div q) % 2 = 1)
                        THEN down + q ELSE down
            IN IF x < 0 THEN -near ELSE near

FlAdd(a, b) == Fl(a + b)
FlMul(a, b) == Fl(a * b)

\* world.js:238  new THREE.Matrix4().identity(), rows first
identity ==
    <<<<1, 0, 0, 0>>, <<0, 1, 0, 0>>, <<0, 0, 1, 0>>, <<0, 0, 0, 1>>>>

\* world.js:239, 255  Matrix4.setPosition(x, y, z)
setPosition(m, t) ==
    [m EXCEPT ![1][4] = t[1], ![2][4] = t[2], ![3][4] = t[3]]

\* world.js:250-255  Matrix4.makeRotationFromQuaternion for the quaternion of
\* `turns` quarter turns about z
makeRotationFromQuaternion(turns) ==
    LET c == <<1, 0, -1, 0>>[turns + 1]
        s == <<0, 1, 0, -1>>[turns + 1]
    IN <<<<c, -s, 0, 0>>, <<s, c, 0, 0>>, <<0, 0, 1, 0>>, <<0, 0, 0, 1>>>>

\* world.js:257, 260  Matrix4.multiplyMatrices(a, b)
multiplyMatrices(a, b) ==
    [i \in 1..4 |-> [j \in 1..4 |->
        FlAdd(FlAdd(FlAdd(FlMul(a[i][1], b[1][j]), FlMul(a[i][2], b[2][j])),
                    FlMul(a[i][3], b[3][j])),
              FlMul(a[i][4], b[4][j]))]]

\* the three indices other than k, in order
Others(k) == SelectSeq(<<1, 2, 3, 4>>, LAMBDA n : n # k)

\* the determinant of m without row i and column j, signed
Cofactor(m, i, j) ==
    LET R == Others(i)
        C == Others(j)
        e(p, q) == m[R[p]][C[q]]
        det3 == e(1, 1) * (e(2, 2) * e(3, 3) - e(2, 3) * e(3, 2))
              - e(1, 2) * (e(2, 1) * e(3, 3) - e(2, 3) * e(3, 1))
              + e(1, 3) * (e(2, 1) * e(3, 2) - e(2, 2) * e(3, 1))
    IN IF (i + j) % 2 = 0 THEN det3 ELSE -det3

determinant(m) ==
    m[1][1] * Cofactor(m, 1, 1) + m[1][2] * Cofactor(m, 1, 2)
        + m[1][3] * Cofactor(m, 1, 3) + m[1][4] * Cofactor(m, 1, 4)

\* world.js:263, 264, 269  Matrix4.invert(): the transposed cofactors over the
\* determinant, the zero matrix when the determinant is 0; the determinant of
\* a rotation followed by a translation is 1
invert(m) ==
    LET det == determinant(m)
    IN IF det = 0 THEN [i \in 1..4 |-> [j \in 1..4 |-> 0]]
       ELSE [i \in 1..4 |-> [j \in 1..4 |-> Fl(Cofactor(m, j, i) \div det)]]

\* world.js:341, 345  Vector4.applyMatrix4 with w = 1 and Vector3.applyMatrix4,
\* whose divisor is 1 for a matrix with last row (0, 0, 0, 1)
applyMatrix4(pos, m) ==
    [i \in 1..3 |->
        FlAdd(FlAdd(FlAdd(FlMul(m[i][1], pos[1]), FlMul(m[i][2], pos[2])),
                    FlMul(m[i][3], pos[3])),
              m[i][4])]

\* calcTransformMatrix() applying the offset before the pose transform
calcTransformMatricesOffsetFirst(pose, refPose, coordinatesOffset, coordinateSystem) ==
    LET offset == setPosition(identity, coordinatesOffset)
    IN IF pose # NoPose
       THEN LET posDelta == <<FlAdd(pose.translation[1], -refPose.translation[1]),
                              FlAdd(pose.translation[2], -refPose.translation[2]),
                              FlAdd(pose.translation[3], -refPose.translation[3])>>
                trans_lidar_utm ==
                    multiplyMatrices(
                        setPosition(makeRotationFromQuaternion(pose.rotation),
                                    posDelta),
                        identity)
                trans_lidar_scene ==
                    IF coordinateSystem = "utm"
                    THEN multiplyMatrices(trans_lidar_utm, offset)
                    ELSE offset
            IN [trans_lidar_utm |-> trans_lidar_utm,
                trans_lidar_scene |-> trans_lidar_scene,
                trans_utm_lidar |-> invert(trans_lidar_utm),
                trans_scene_lidar |-> invert(trans_lidar_scene)]
       ELSE [trans_lidar_utm |-> identity,
             trans_lidar_scene |-> offset,
             trans_utm_lidar |-> identity,
             trans_scene_lidar |-> invert(offset)]

\* calcTransformMatrix() taking the inverse of the offset for trans_scene_lidar
\* whatever trans_lidar_scene is
calcTransformMatricesOffsetInverse(pose, refPose, coordinatesOffset, coordinateSystem) ==
    LET offset == setPosition(identity, coordinatesOffset)
    IN IF pose # NoPose
       THEN LET posDelta == <<FlAdd(pose.translation[1], -refPose.translation[1]),
                              FlAdd(pose.translation[2], -refPose.translation[2]),
                              FlAdd(pose.translation[3], -refPose.translation[3])>>
                trans_lidar_utm ==
                    multiplyMatrices(
                        setPosition(makeRotationFromQuaternion(pose.rotation),
                                    posDelta),
                        identity)
                trans_lidar_scene ==
                    IF coordinateSystem = "utm"
                    THEN multiplyMatrices(offset, trans_lidar_utm)
                    ELSE offset
            IN [trans_lidar_utm |-> trans_lidar_utm,
                trans_lidar_scene |-> trans_lidar_scene,
                trans_utm_lidar |-> invert(trans_lidar_utm),
                trans_scene_lidar |-> invert(offset)]
       ELSE [trans_lidar_utm |-> identity,
             trans_lidar_scene |-> offset,
             trans_utm_lidar |-> identity,
             trans_scene_lidar |-> invert(offset)]

\* the model's pose: a translation and a number of quarter turns, or NoPose;
\* world.js:237-270 on the pose of the entry, the reference pose
\* getRefEgoPose returns, this.coordinatesOffset and cfg.coordinateSystem
calcTransformMatrices(pose, refPose, coordinatesOffset, coordinateSystem) ==
    LET offset == setPosition(identity, coordinatesOffset)
    IN IF pose # NoPose
       THEN LET posDelta == <<FlAdd(pose.translation[1], -refPose.translation[1]),
                              FlAdd(pose.translation[2], -refPose.translation[2]),
                              FlAdd(pose.translation[3], -refPose.translation[3])>>
                trans_lidar_ego == identity
                trans_ego_utm ==
                    setPosition(makeRotationFromQuaternion(pose.rotation), posDelta)
                trans_lidar_utm == multiplyMatrices(trans_ego_utm, trans_lidar_ego)
                trans_lidar_scene ==
                    IF coordinateSystem = "utm"
                    THEN multiplyMatrices(offset, trans_lidar_utm)
                    ELSE offset
            IN [trans_lidar_utm |-> trans_lidar_utm,
                trans_lidar_scene |-> trans_lidar_scene,
                trans_utm_lidar |-> invert(trans_lidar_utm),
                trans_scene_lidar |-> invert(trans_lidar_scene)]
       ELSE [trans_lidar_utm |-> identity,
             trans_lidar_scene |-> offset,
             trans_utm_lidar |-> identity,
             trans_scene_lidar |-> invert(offset)]

\* world.js:340-342
scenePosToLidar(M, pos) == applyMatrix4(pos, M.trans_scene_lidar)

\* world.js:344-346
lidarPosToScene(M, pos) == applyMatrix4(pos, M.trans_lidar_scene)

(***************************************************************************)
(* Data (public/js/data.js)                                                *)
(***************************************************************************)
\* a lookup that matches no registered entry
findNothing(D, sceneName, frameId) == NoWorld

\* data.js:115  the first registered entry of (sceneName, frameId), or null
findExisting(D, sceneName, frameId) ==
    LET hits == {k \in 1..Len(D.worldList) :
                    /\ D.worlds[D.worldList[k]].scene = sceneName
                    /\ D.worlds[D.worldList[k]].frame = frameId}
    IN IF hits = {} THEN NoWorld
       ELSE D.worldList[CHOOSE k \in hits : \A m \in hits : k <= m]

\* data.js:95-103, with the constructor of World (world.js:183-208)
\* returns [d |-> Data after the call, w |-> the entry created]
_createWorld(D, sceneName, frameId, hasCallback) ==
    LET r == allocateOffset(D)
        id == D.createWorldIndex + 1
        D1 == [r.a EXCEPT !.worlds[id] =
                   NewWorld(sceneName, frameId, r.cell, hasCallback)]
        D2 == egoPosePreload(D1, id)
    IN [d |-> [D2 EXCEPT !.createWorldIndex = id,
                         !.worldList = Append(@, id)],
        w |-> id]

\* data.js:110-116  getWorld from the second test of meta on
getWorldTail(D, sceneName, frameId) ==
    IF ~D.meta[sceneName] THEN [d |-> D, w |-> NoWorld]
    ELSE LET existing == findExisting(D, sceneName, frameId)
         IN IF existing # NoWorld THEN [d |-> D, w |-> existing]
            ELSE _createWorld(D, sceneName, frameId, TRUE)

Abs(n) == IF n < 0 THEN -n ELSE n

\* the eviction test without its isSafe conjunct
removableWhenFar(D, i, currentIndex) ==
    Abs(D.worlds[i].frame - currentIndex) > MaxWorldNumber

\* data.js:122-126
removable(D, i, currentIndex) ==
    LET tooFar == Abs(D.worlds[i].frame - currentIndex) > MaxWorldNumber
        isSafe == ~D.worlds[i].modified /\ D.worlds[i].everythingDone
    IN tooFar /\ isSafe

\* data.js:129-132  toDelete.forEach(...)
RECURSIVE deleteEach(_, _)
deleteEach(D, toDelete) ==
    IF toDelete = <<>> THEN D
    ELSE LET i == Head(toDelete)
             D1 == Note(returnOffset(Note(D, "evict", i), D.worlds[i].offsetIndex),
                        "returnOffset", i)
         IN deleteEach(deleteAll(D1, i), Tail(toDelete))

\* data.js:119-135
deleteDistantWorlds(D, currentWorld) ==
    LET currentIndex == D.worlds[currentWorld].frame
        toDelete == SelectSeq(D.worldList, LAMBDA i : removable(D, i, currentIndex))
        D1 == deleteEach(D, toDelete)
    IN [D1 EXCEPT !.worldList =
            SelectSeq(D1.worldList, LAMBDA i : ~removable(D1, i, currentIndex))]

\* the purge applying the isSafe test of the eviction to each entry
RECURSIVE purgeEachSafe(_, _, _)
purgeEachSafe(D, list, keepScene) ==
    IF list = <<>> THEN D
    ELSE LET i == Head(list)
             isSafe == ~D.worlds[i].modified /\ D.worlds[i].everythingDone
         IN IF D.worlds[i].scene # keepScene /\ isSafe
            THEN LET D1 == Note(returnOffset(Note(D, "purge", i),
                                             D.worlds[i].offsetIndex),
                                "returnOffset", i)
                     D2 == deleteAll(D1, i)
                 IN purgeEachSafe(removeRefEgoPoseOfScene(D2, D2.worlds[i].scene),
                                  Tail(list), keepScene)
            ELSE purgeEachSafe(D, Tail(list), keepScene)

\* data.js:138-144  this.worldList.forEach(...)
RECURSIVE purgeEach(_, _, _)
purgeEach(D, list, keepScene) ==
    IF list = <<>> THEN D
    ELSE LET i == Head(list)
         IN IF D.worlds[i].scene # keepScene
            THEN LET D1 == Note(returnOffset(Note(D, "purge", i),
                                             D.worlds[i].offsetIndex),
                                "returnOffset", i)
                     D2 == deleteAll(D1, i)
                 IN purgeEach(removeRefEgoPoseOfScene(D2, D2.worlds[i].scene),
                              Tail(list), keepScene)
            ELSE purgeEach(D, Tail(list), keepScene)

\* data.js:137-146
deleteOtherWorldsExcept(D, keepScene) ==
    LET D1 == purgeEach(D, D.worldList, keepScene)
    IN [D1 EXCEPT !.worldList =
            SelectSeq(D1.worldList, LAMBDA i : D1.worlds[i].scene = keepScene)]

(***************************************************************************)
(* The state of the program as one record, and back                        *)
(***************************************************************************)
Cur ==
    [offsetList |-> offsetList, lastSeedOffset |-> lastSeedOffset,
     offsetsAliveCount |-> offsetsAliveCount,
     worlds |-> worlds, createWorldIndex |-> createWorldIndex,
     worldList |-> worldList, world |-> world, refEgoPose |-> refEgoPose,
     meta |-> meta, mainScene |-> mainScene, log |-> <<>>]

Becomes(D) ==
    /\ offsetList' = D.offsetList
    /\ lastSeedOffset' = D.lastSeedOffset
    /\ offsetsAliveCount' = D.offsetsAliveCount
    /\ worlds' = D.worlds
    /\ createWorldIndex' = D.createWorldIndex
    /\ worldList' = D.worldList
    /\ world' = D.world
    /\ refEgoPose' = D.refEgoPose
    /\ meta' = D.meta
    /\ mainScene' = D.mainScene
    /\ log' = D.log

Created == 1..createWorldIndex

\* the model constructs at most MaxWorlds entries
Room(sceneName, frameId) ==
    findExisting(Cur, sceneName, frameId) # NoWorld \/ createWorldIndex < MaxWorlds

\* no transform computation is under way
NoXform == [phase |-> "none"]

\* save.js:51-52 before the first save: no timer, nothing pending, no request
\* in flight; edits[i] is the number of edits the boxes of entry i hold, what
\* toBoxAnnotations() returns, and saved[i] the most edits of entry i that a
\* request answered with status 200 contained
NoSave ==
    [saveDelayTimer |-> FALSE, pendingSaveList |-> <<>>, requests |-> <<>>,
     edits |-> [i \in 1..MaxWorlds |-> 0],
     saved |-> [i \in 1..MaxWorlds |-> 0]]

(***************************************************************************)
(* The state after `new Data(cfg)` (data.js:6-24)                          *)
(***************************************************************************)
Init ==
    /\ offsetList = <<Origin>>
    /\ lastSeedOffset = Origin
    /\ offsetsAliveCount = 0
    /\ held = <<>>
    /\ worlds = [i \in 1..MaxWorlds |-> Blank]
    /\ createWorldIndex = 0
    /\ worldList = <<>>
    /\ world = NoWorld
    /\ refEgoPose = [s \in Scenes |-> NoPose]
    /\ meta = [s \in Scenes |-> FALSE]
    /\ pending = <<>>
    /\ mainScene = {}
    /\ log = <<>>
    /\ xform = NoXform
    /\ save = NoSave

(***************************************************************************)
(* Operations and completions                                              *)
(***************************************************************************)
\* data.js:105-108  getWorld for a scene whose metadata is not cached: the
\* call issues the fetch and suspends
GetWorldFetch(sceneName, frameId, cap) ==
    /\ ~meta[sceneName]
    /\ Len(pending) < cap
    /\ pending' = Append(pending, [scene |-> sceneName, frame |-> frameId])
    /\ log' = <<>>
    /\ UNCHANGED <<allocVars, held, xform, save, worlds, createWorldIndex, worldList, world,
                   refEgoPose, meta, mainScene>>

\* data.js:105-117  getWorld for a scene whose metadata is cached: no await
\* is executed, the call runs to its end
GetWorldCached(sceneName, frameId) ==
    /\ meta[sceneName]
    /\ Room(sceneName, frameId)
    /\ LET r == getWorldTail(Cur, sceneName, frameId)
       IN Becomes(Note(r.d, "return", r.w))
    /\ UNCHANGED <<held, pending, xform, save>>

\* data.js:298 and 110-116  the fetch of a suspended getWorld succeeds:
\* readSceneMetaData stores the metadata and getWorld resumes
MetaFetched(k) ==
    LET sceneName == pending[k].scene
        frameId == pending[k].frame
        r == getWorldTail([Cur EXCEPT !.meta[sceneName] = TRUE],
                          sceneName, frameId)
    IN /\ Room(sceneName, frameId)
       /\ Becomes(Note(r.d, "return", r.w))
       /\ pending' = RemoveAt(pending, k)
       /\ UNCHANGED <<held, xform, save>>

\* a failed fetch after which getWorld finds a metadata object stored
MetaFailedStoring(k) ==
    /\ pending' = RemoveAt(pending, k)
    /\ meta' = [meta EXCEPT ![pending[k].scene] = TRUE]
    /\ log' = <<<<"throw", NoWorld>>>>
    /\ UNCHANGED <<allocVars, held, xform, save, worlds, createWorldIndex, worldList, world,
                   refEgoPose, mainScene>>

\* data.js:269, 300-303 and 107  the fetch fails: readSceneMetaData throws
\* and the await in getWorld rethrows
MetaFailed(k) ==
    /\ pending' = RemoveAt(pending, k)
    /\ log' = <<<<"throw", NoWorld>>>>
    /\ UNCHANGED <<allocVars, held, xform, save, worlds, createWorldIndex, worldList, world,
                   refEgoPose, meta, mainScene>>

Max(a, b) == IF a >= b THEN a ELSE b
Min(a, b) == IF a <= b THEN a ELSE b

\* data.js:180-201 on a scene whose frame ids are their indices;
\* meta.frames.slice(startIndex, endIndex) ends with the last frame, and
\* pending.forEach creates the frames of [lo, hi) in order, here the lower
\* half of the range and then the upper half; the test of the counter has the
\* lower half evaluated before the upper half is entered
_doPreload(D, sceneName, startIndex, endIndex) ==
    IF ~D.meta[sceneName] THEN D
    ELSE LET RECURSIVE each(_, _, _)
             each(E, lo, hi) ==
                 IF lo >= hi THEN E
                 ELSE IF hi = lo + 1
                 THEN IF findExisting(D, sceneName, lo) # NoWorld THEN E
                      ELSE _createWorld(E, sceneName, lo, FALSE).d
                 ELSE LET mid == (lo + hi) \div 2
                          lower == each(E, lo, mid)
                      IN IF lower.createWorldIndex < E.createWorldIndex THEN E
                         ELSE each(lower, mid, hi)
         IN each(D, startIndex, Min(endIndex, FrameCount(sceneName)))

\* a window that always opens at the first frame of the scene
WindowStartAtFirstFrame(currentIndex) == 0

\* data.js:167  Math.max(0, currentIndex - this.MaxWorldNumber / 2)
WindowStart(currentIndex) == Max(0, currentIndex - MaxWorldNumber \div 2)

\* data.js:165, 168  Math.min(meta.frames.length, start + this.MaxWorldNumber)
\* with meta the metadata of the scene of currentWorld
WindowEnd(D, currentWorld) ==
    Min(FrameCount(D.worlds[currentWorld].scene),
        WindowStart(D.worlds[currentWorld].frame) + MaxWorldNumber)

\* forcePreloadScene with the window opening at the current frame
forcePreloadSceneAhead(D, sceneName, currentWorld) ==
    LET start == D.worlds[currentWorld].frame
        end == Min(FrameCount(D.worlds[currentWorld].scene),
                   start + MaxWorldNumber)
    IN _doPreload(D, sceneName, start, end)

\* data.js:164-171
forcePreloadScene(D, sceneName, currentWorld) ==
    LET start == WindowStart(D.worlds[currentWorld].frame)
        end == WindowEnd(D, currentWorld)
    IN _doPreload(D, sceneName, start, end)

\* data.js:173-178, enablePreload being cfg.enablePreload at the call
preloadScene(D, sceneName, currentWorld, enablePreload) ==
    LET D1 == deleteOtherWorldsExcept(Note(D, "preloadScene", currentWorld),
                                      sceneName)
        D2 == deleteDistantWorlds(D1, currentWorld)
    IN IF ~enablePreload THEN D2
       ELSE forcePreloadScene(D2, sceneName, currentWorld)

DoPreload(sceneName, startIndex, endIndex) ==
    /\ startIndex < endIndex
    /\ createWorldIndex + (endIndex - startIndex) <= MaxWorlds
    /\ Becomes(_doPreload(Cur, sceneName, startIndex, endIndex))
    /\ UNCHANGED <<held, pending, xform, save>>

\* the frames of the window of currentWorld that have no registered entry
Missing(sceneName, currentWorld) ==
    {f \in WindowStart(worlds[currentWorld].frame)
              ..(WindowEnd(Cur, currentWorld) - 1) :
        f < FrameCount(sceneName) /\ findExisting(Cur, sceneName, f) = NoWorld}

\* data.js:173-178  a caller preloads the scene of the entry it shows; the
\* model has PreloadSlots World objects at most
PreloadScene(sceneName, currentWorld, enablePreload) ==
    /\ meta[sceneName]
    /\ worlds[currentWorld].scene = sceneName
    /\ enablePreload =>
           createWorldIndex + Cardinality(Missing(sceneName, currentWorld))
               <= PreloadSlots
    /\ Becomes(preloadScene(Cur, sceneName, currentWorld, enablePreload))
    /\ UNCHANGED <<held, pending, xform, save>>

\* the point-cloud loader settles: sets lidar.preloaded and calls the callback
\* World.preload gave it (world.js:221-222)
LidarLoaded(i) ==
    /\ ~worlds[i].lidarPreloaded
    /\ Becomes(on_subitem_preload_finished(
                   [Cur EXCEPT !.worlds[i].lidarPreloaded = TRUE], i))
    /\ UNCHANGED <<held, pending, xform, save>>

\* the annotation loader settles (world.js:221, 223)
AnnotationLoaded(i) ==
    /\ ~worlds[i].annotationPreloaded
    /\ Becomes(on_subitem_preload_finished(
                   [Cur EXCEPT !.worlds[i].annotationPreloaded = TRUE], i))
    /\ UNCHANGED <<held, pending, xform, save>>

\* ego_pose.js:36-55  the pose request ends, with status 200 or another
PoseLoaded(i, ok) ==
    /\ ~PoseInMeta(worlds[i].scene)
    /\ ~worlds[i].egoPosePreloaded
    /\ LET pose == IF ok THEN PoseTranslation(worlds[i].scene, worlds[i].frame)
                   ELSE NoPose
       IN Becomes(on_subitem_preload_finished(
                      [Cur EXCEPT !.worlds[i].egoPose = pose,
                                  !.worlds[i].egoPosePreloaded = TRUE], i))
    /\ UNCHANGED <<held, pending, xform, save>>

\* world.js:159-168, 175-179  an image fires onload or onerror
ImageLoaded(i, name) ==
    /\ name \in CameraNames(worlds[i].scene) \ worlds[i].loaded_flag
    /\ LET D1 == [Cur EXCEPT !.worlds[i].loaded_flag = @ \cup {name}]
       IN Becomes(IF loaded(D1.worlds[i])
                  THEN on_subitem_preload_finished(D1, i)
                  ELSE D1)
    /\ UNCHANGED <<held, pending, xform, save>>

\* the editor changes a box of an entry: annotation.modified becomes true
EditAnnotation(i) ==
    /\ worlds[i].annotationPreloaded
    /\ ~worlds[i].destroyed
    /\ ~worlds[i].modified
    /\ Becomes([Cur EXCEPT !.worlds[i].modified = TRUE])
    /\ UNCHANGED <<held, pending, xform, save>>

\* data.js:256-262
ActivateWorld(i, dontDestroyOld) ==
    /\ Becomes(activate_world(Cur, i, PlainCallback, dontDestroyOld))
    /\ UNCHANGED <<held, pending, xform, save>>

\* data.js:119-135
DeleteDistantWorlds(currentWorld) ==
    /\ Becomes(deleteDistantWorlds(Cur, currentWorld))
    /\ UNCHANGED <<held, pending, xform, save>>

\* data.js:137-146
DeleteOtherWorldsExcept(keepScene) ==
    /\ Becomes(deleteOtherWorldsExcept(Cur, keepScene))
    /\ UNCHANGED <<held, pending, xform, save>>

\* world.js:307-315  a caller unloads an entry it holds
Unload(i) ==
    /\ Becomes(unload(Cur, i))
    /\ UNCHANGED <<held, pending, xform, save>>

\* world.js:317-324  a caller destroys an entry it holds
DeleteAll(i) ==
    /\ Becomes(deleteAll(Cur, i))
    /\ UNCHANGED <<held, pending, xform, save>>

vars == <<offsetList, lastSeedOffset, offsetsAliveCount, held, worlds,
          createWorldIndex, worldList, world, refEgoPose, meta, pending,
          mainScene, log, xform, save>>

(***************************************************************************)
(* Spec: the cache manager over two scenes                                 *)
(***************************************************************************)
Next ==
    \/ \E r \in Requests : GetWorldFetch(r[1], r[2], MaxPending)
    \/ \E r \in Requests : GetWorldCached(r[1], r[2])
    \/ \E k \in 1..Len(pending) : MetaFetched(k)
    \/ \E k \in 1..Len(pending) : MetaFailed(k)
    \/ \E i \in Created : LidarLoaded(i)
    \/ \E i \in Created : AnnotationLoaded(i)
    \/ \E i \in Created : EditAnnotation(i)
    \/ \E i \in Created, dontDestroyOld \in BOOLEAN : ActivateWorld(i, dontDestroyOld)
    \/ \E i \in Created : DeleteDistantWorlds(i)
    \/ \E keepScene \in ManagerScenes : DeleteOtherWorldsExcept(keepScene)

Spec == Init /\ [][Next]_vars

(***************************************************************************)
(* What a step did, read from the log                                      *)
(***************************************************************************)
Range(s) == {s[k] : k \in 1..Len(s)}

Logged(l, what, i) == \E k \in 1..Len(l) : l[k] = <<what, i>>

Times(l, what, i) == Cardinality({k \in 1..Len(l) : l[k] = <<what, i>>})

\* event e1 is in the log before event e2
Before(l, e1, e2) ==
    \E p, q \in 1..Len(l) : p < q /\ l[p] = e1 /\ l[q] = e2

SameKey(w1, w2) == w1.scene = w2.scene /\ w1.frame = w2.frame

(***************************************************************************)
(* Eviction and purge (Spec)                                               *)
(***************************************************************************)
\* C2: in every call of deleteDistantWorlds, deleteAll() is invoked and an
\* offset is released only for entries which before the call had
\* everythingDone true and annotation.modified false.
C2_EvictionSafety ==
    [][(\E currentWorld \in Created : DeleteDistantWorlds(currentWorld)) =>
          \A i \in Created :
              (Logged(log', "deleteAll", i) \/ Logged(log', "returnOffset", i))
                  => worlds[i].everythingDone /\ ~worlds[i].modified]_vars

\* a call of deleteDistantWorlds has just evicted an attached, unmodified entry
C2_Witness ==
    \E i \in Created :
        /\ Before(log, <<"evict", i>>, <<"returnOffset", i>>)
        /\ Before(log, <<"returnOffset", i>>, <<"deleteAll", i>>)
        /\ Logged(log, "scene.remove", i)
        /\ ~worlds[i].modified

\* the entries that deleteDistantWorlds(currentWorld) is to evict
Eligible(i, currentWorld) ==
    /\ Abs(worlds[i].frame - worlds[currentWorld].frame) > MaxWorldNumber
    /\ worlds[i].everythingDone
    /\ ~worlds[i].modified

\* C6: after deleteDistantWorlds(current), every registered entry that was
\* farther than MaxWorldNumber from current, attached and unmodified has had
\* its cell released exactly once and deleteAll() called and is no longer
\* registered; every other entry is still registered and not destroyed.
C6_EvictionExact ==
    [][\A currentWorld \in Created : DeleteDistantWorlds(currentWorld) =>
          \A i \in Range(worldList) :
              IF Eligible(i, currentWorld)
              THEN /\ Times(log', "returnOffset", i) = 1
                   /\ Logged(log', "deleteAll", i)
                   /\ i \notin Range(worldList')
              ELSE /\ i \in Range(worldList')
                   /\ ~worlds'[i].destroyed]_vars

\* C7: after deleteOtherWorldsExcept(keep), worldList holds exactly the
\* entries of scene keep, unchanged and not destroyed; every entry of another
\* scene has had deleteAll() called and its cell released; refEgoPose has no
\* key for the other scenes that had entries; the reference pose of keep is
\* unchanged.
C7_PurgePostcondition ==
    [][\A keepScene \in Scenes : DeleteOtherWorldsExcept(keepScene) =>
          /\ worldList' = SelectSeq(worldList,
                                    LAMBDA i : worlds[i].scene = keepScene)
          /\ \A i \in Range(worldList) :
                 IF worlds[i].scene = keepScene
                 THEN worlds'[i] = worlds[i] /\ ~worlds'[i].destroyed
                 ELSE /\ Logged(log', "deleteAll", i)
                      /\ Logged(log', "returnOffset", i)
                      /\ worlds'[i].destroyed
                      /\ refEgoPose'[worlds[i].scene] = NoPose
          /\ refEgoPose'[keepScene] = refEgoPose[keepScene]]_vars

\* C10: data.world is null or an entry whose preload is complete.
C10_CurrentEntryPreloaded ==
    world = NoWorld \/ preloaded(worlds[world])

\* the translation of trans_lidar_utm of entry i is its raw pose translation
\* minus the translation of the reference pose its scene has now
DeltaToRef(i) ==
    LET w == worlds[i]
        ref == refEgoPose[w.scene]
    IN /\ ref # NoPose
       /\ w.trans_lidar_utm = <<w.egoPose[1] - ref[1], w.egoPose[2] - ref[2],
                                w.egoPose[3] - ref[3]>>

\* entry i has pose data and its transform has been computed
Computed(i) == worlds[i].calcCount >= 1 /\ worlds[i].egoPose # NoPose

\* a step that gives scene s a reference pose takes it from an entry of s whose
\* transform it computes, with translation (0,0,0)
RefEntryAtOrigin(s) ==
    (refEgoPose[s] = NoPose /\ refEgoPose'[s] # NoPose) =>
        \E i \in 1..createWorldIndex' :
            /\ worlds'[i].scene = s
            /\ worlds'[i].egoPose = refEgoPose'[s]
            /\ worlds'[i].calcCount > worlds[i].calcCount
            /\ worlds'[i].trans_lidar_utm = <<0, 0, 0>>

\* C18 as stated: for every entry with pose data whose transform has been
\* computed, the translation of trans_lidar_utm is the raw pose translation
\* minus the translation of the scene's reference pose, and the entry whose
\* pose became the reference has translation (0,0,0).
C18_ReferencePoseDelta ==
    /\ [](\A i \in Created : Computed(i) => DeltaToRef(i))
    /\ [][\A s \in Scenes : RefEntryAtOrigin(s)]_vars

\* C18 amended: the same for every registered entry; an entry the cache has
\* dropped keeps the translation computed against the reference pose its
\* scene had then.
C18_ReferencePoseDeltaRegistered ==
    /\ [](\A i \in Range(worldList) : Computed(i) => DeltaToRef(i))
    /\ [][\A s \in Scenes : RefEntryAtOrigin(s)]_vars

\* a registered entry placed away from the reference entry of its scene
C18_Witness ==
    \E i \in Range(worldList) :
        /\ Computed(i) /\ DeltaToRef(i)
        /\ worlds[i].trans_lidar_utm # <<0, 0, 0>>
        /\ Logged(log, "preloaded", i)

\* scene s has a registered entry
HasRegistered(list, ws, s) == \E i \in Range(list) : ws[i].scene = s

\* the reference pose entry i was placed against: its raw pose translation
\* minus the translation of its trans_lidar_utm
PlacedAgainst(i) ==
    <<worlds[i].egoPose[1] - worlds[i].trans_lidar_utm[1],
      worlds[i].egoPose[2] - worlds[i].trans_lidar_utm[2],
      worlds[i].egoPose[3] - worlds[i].trans_lidar_utm[3]>>

C23_ReferencePoseLivesWithScene ==
    \A s \in Scenes :
        ~HasRegistered(worldList, worlds, s) => refEgoPose[s] = NoPose

\* offsetsAliveCount counts the registered entries and is not negative
CountMatchesRegistered ==
    offsetsAliveCount = Len(worldList) /\ offsetsAliveCount >= 0

\* the free pool holds the cell of no registered entry that is not destroyed
PoolHoldsNoLiveCell ==
    \A i \in Range(worldList) :
        ~worlds[i].destroyed => worlds[i].offsetIndex \notin Range(offsetList)

\* the step returns the cell of an entry at most once, and never the cell of
\* an entry whose cell an earlier step returned
ReturnsOnce ==
    \A i \in Created :
        /\ Times(log', "returnOffset", i) <= 1
        /\ worlds[i].destroyed => Times(log', "returnOffset", i) = 0

\* C26: offsetsAliveCount equals the number of entries registered in
\* worldList and is never negative; no entry's cell is returned to the pool
\* more than once, and the pool never holds the cell of a registered entry
\* that is not destroyed.
C26_AllocatorAccounting ==
    [][/\ CountMatchesRegistered /\ CountMatchesRegistered'
       /\ PoolHoldsNoLiveCell /\ PoolHoldsNoLiveCell'
       /\ ReturnsOnce]_vars

\* the parts of C26, one at a time
C26_CountPart == [][CountMatchesRegistered']_vars
C26_NonNegativePart == offsetsAliveCount >= 0
C26_ReturnPart == [][ReturnsOnce]_vars
C26_PoolPart == PoolHoldsNoLiveCell

\* C27: data.world is null or an entry whose destroyed flag is false.
C27_CurrentEntryNotDestroyed ==
    world = NoWorld \/ ~worlds[world].destroyed

\* C30: deleteOtherWorldsExcept(keep) destroys and unregisters every
\* registered entry of a scene other than keep, also an entry whose
\* annotation is modified or whose everythingDone is false.
C30_ScenePurgeUnconditional ==
    [][\A keepScene \in Scenes :
          (/\ IF log' = <<>> THEN worlds' = worlds /\ pending' = pending
                             ELSE log'[1][1] = "purge"
           /\ DeleteOtherWorldsExcept(keepScene)) =>
          \A i \in Range(worldList) :
              worlds[i].scene # keepScene =>
                  /\ Logged(log', "deleteAll", i)
                  /\ worlds'[i].destroyed
                  /\ ~worlds'[i].everythingDone
                  /\ i \notin Range(worldList')
                  /\ worlds'[i].modified = worlds[i].modified]_vars

\* a purge has just destroyed and unregistered an attached entry with a
\* modified annotation and an entry that had not finished loading
C30_Witness ==
    \E i, j \in Created :
        /\ Logged(log, "purge", i) /\ Logged(log, "purge", j)
        /\ worlds[i].modified /\ Logged(log, "scene.remove", i)
        /\ ~preloaded(worlds[j]) /\ ~worlds[j].modified
        /\ worlds[i].destroyed /\ worlds[j].destroyed
        /\ {i, j} \cap Range(worldList) = {}

(***************************************************************************)
(* SpecSlot: Spec with every activation made with dontDestroyOld false     *)
(***************************************************************************)
NextSlot ==
    \/ \E r \in Requests : GetWorldFetch(r[1], r[2], MaxPending)
    \/ \E r \in Requests : GetWorldCached(r[1], r[2])
    \/ \E k \in 1..Len(pending) : MetaFetched(k)
    \/ \E k \in 1..Len(pending) : MetaFailed(k)
    \/ \E i \in Created : LidarLoaded(i)
    \/ \E i \in Created : AnnotationLoaded(i)
    \/ \E i \in Created : EditAnnotation(i)
    \/ \E i \in Created : ActivateWorld(i, FALSE)
    \/ \E i \in Created : DeleteDistantWorlds(i)
    \/ \E keepScene \in ManagerScenes : DeleteOtherWorldsExcept(keepScene)

SpecSlot == Init /\ [][NextSlot]_vars

\* C8: with every activation made with dontDestroyOld false, at most one
\* entry is attached to the main render scene.
C8_SingleRenderSlot ==
    Cardinality(mainScene) <= 1

\* new's go() has called a destroy_old_world closure that unloaded the
\* attached entry old
Replaces(new, old) ==
    /\ new # old
    /\ Logged(log', "destroy_old_world", new)
    /\ worlds'[new].destroy_old_world.unloads = old
    /\ Logged(log', "scene.remove", old)

\* C9 as claimed: new is attached to the render scene strictly before
\* old.unload() is executed.
C9_AttachBeforeUnload ==
    [][\A new, old \in Created :
          Replaces(new, old) =>
              Before(log', <<"scene.add", new>>, <<"scene.remove", old>>)]_vars

\* C9 as the code has it: old.unload() is executed by new's go(), only once
\* new's preload is complete, and strictly before new is attached; new is
\* attached in the same call unless it has been destroyed.
C9_UnloadBeforeAttach ==
    [][\A new, old \in Created :
          Replaces(new, old) =>
              /\ preloaded(worlds'[new])
              /\ ~Before(log', <<"scene.add", new>>, <<"scene.remove", old>>)
              /\ \/ worlds'[new].destroyed
                 \/ Before(log', <<"scene.remove", old>>, <<"scene.add", new>>)]_vars

\* an activation has just replaced the attached entry old by new
C9_Witness ==
    \E new, old \in Created :
        /\ new # old
        /\ world = new
        /\ Before(log, <<"destroy_old_world", new>>, <<"scene.remove", old>>)
        /\ Before(log, <<"scene.remove", old>>, <<"scene.add", new>>)
        /\ mainScene = {new}

(***************************************************************************)
(* SpecWorld: the life of the entries of one frame of scene C, which has a *)
(* camera and requests its poses; callers activate, unload and destroy     *)
(* the entries they hold                                                   *)
(***************************************************************************)
NextWorld ==
    \/ GetWorldFetch("C", 0, MaxPending)
    \/ GetWorldCached("C", 0)
    \/ \E k \in 1..Len(pending) : MetaFetched(k)
    \/ \E k \in 1..Len(pending) : MetaFailed(k)
    \/ \E i \in Created : LidarLoaded(i)
    \/ \E i \in Created : AnnotationLoaded(i)
    \/ \E i \in Created, ok \in BOOLEAN : PoseLoaded(i, ok)
    \/ \E i \in Created : ImageLoaded(i, "front")
    \/ \E i \in Created, dontDestroyOld \in BOOLEAN : ActivateWorld(i, dontDestroyOld)
    \/ \E i \in Created : Unload(i)
    \/ \E i \in Created : DeleteAll(i)
    \/ DeleteOtherWorldsExcept("A")

SpecWorld == Init /\ [][NextWorld]_vars

\* C3: an entry on which deleteAll() has been called stays destroyed and is
\* never attached: destroyed implies that everythingDone is false and that
\* its group is not in the render scene.
C3_DestroyedWins ==
    /\ [](\A i \in Created :
              worlds[i].destroyed =>
                  ~worlds[i].everythingDone /\ i \notin mainScene)
    /\ [][\A i \in Created : worlds[i].destroyed => worlds'[i].destroyed]_vars

\* go() has run for a destroyed entry: it is destroyed, its preload is
\* complete and it is still marked active, and it is not attached
C3_Witness ==
    \E i \in Created :
        /\ worlds[i].destroyed
        /\ worlds[i].active
        /\ preloaded(worlds[i]) /\ loaded(worlds[i])
        /\ i \notin mainScene

\* every sub-loader of entry i has settled
Settled(i) == preloaded(worlds[i]) /\ loaded(worlds[i])

\* C4: calcTransformMatrix() and the on_preload_finished callback never run
\* a second time for one entry, and have run exactly once when all four
\* sub-loaders of the entry have settled.
C4_PreloadFiresOnce ==
    \A i \in Created :
        /\ worlds[i].calcCount <= 1
        /\ worlds[i].preloadedCount <= 1
        /\ Settled(i) => worlds[i].calcCount = 1 /\ worlds[i].preloadedCount = 1

\* C21: calcTransformMatrix() has not run for an entry, and preloaded() is
\* false for it, in every state where one of its four sub-loaders (point
\* cloud, annotation, image set, pose) has not signalled completion.
C21_TransformFollowsAllFour ==
    \A i \in Created :
        (worlds[i].calcCount >= 1 \/ preloaded(worlds[i]) \/ Logged(log, "preloaded", i))
            => Settled(i)

\* C28: an entry with everythingDone true is active, has its preload
\* complete and is not destroyed; everythingDone goes from true to false only
\* in a step that runs the body of unload() on the entry, called directly,
\* by deleteAll() or by the destroy_old_world closure of another entry.
C28_AttachedStateConsistency ==
    [][\A i \in Created :
          /\ worlds'[i].everythingDone =>
                 /\ worlds'[i].active
                 /\ preloaded(worlds'[i])
                 /\ ~worlds'[i].destroyed
          /\ (worlds[i].everythingDone /\ ~worlds'[i].everythingDone) =>
                 /\ Logged(log', "scene.remove", i)
                 /\ ~worlds'[i].active
                 /\ i \notin mainScene'
                 /\ \/ Unload(i)
                    \/ Logged(log', "deleteAll", i)
                    \/ \E j \in Created \ {i} :
                           /\ Logged(log', "destroy_old_world", j)
                           /\ worlds'[j].destroy_old_world.unloads = i]_vars

\* a caller's unload() has just taken everythingDone of an attached entry
\* from true to false: the entry is detached, inactive, still preloaded and
\* not destroyed
C28_Witness ==
    \E i \in Created :
        /\ log = <<<<"scene.remove", i>>>>
        /\ ~worlds[i].everythingDone /\ ~worlds[i].active
        /\ preloaded(worlds[i]) /\ ~worlds[i].destroyed
        /\ i \notin mainScene

\* C14: unload() on an entry that is not attached changes nothing; a second
\* unload() changes nothing more; unload() neither sets destroyed nor
\* releases what the sub-loaders hold, and activate() on the unloaded entry,
\* if preloaded and not destroyed, attaches it again.
C14_UnloadIdempotent ==
    \A i \in Created :
        LET U == unload(Cur, i)
        IN /\ ~worlds[i].everythingDone => U = Cur
           /\ unload(U, i) = U
           /\ U.worlds[i].destroyed = worlds[i].destroyed
           /\ ~Logged(U.log, "release", i)
           /\ U.worlds[i].lidarPreloaded = worlds[i].lidarPreloaded
           /\ U.worlds[i].annotationPreloaded = worlds[i].annotationPreloaded
           /\ U.worlds[i].egoPosePreloaded = worlds[i].egoPosePreloaded
           /\ U.worlds[i].egoPose = worlds[i].egoPose
           /\ U.worlds[i].loaded_flag = worlds[i].loaded_flag
           /\ (preloaded(worlds[i]) /\ ~worlds[i].destroyed) =>
                  LET A == activate(U, i, NoClosure, PlainCallback)
                  IN i \in A.mainScene /\ A.worlds[i].everythingDone

\* a caller has just unloaded an attached entry, which is still preloaded
\* and not destroyed
C14_Witness ==
    \E i \in Created :
        /\ log = <<<<"scene.remove", i>>>>
        /\ preloaded(worlds[i])
        /\ ~worlds[i].destroyed
        /\ ~worlds[i].everythingDone

\* C15: deleteAll() detaches the entry if it is attached, releases the
\* point-cloud and annotation resources exactly once and sets destroyed; on a
\* destroyed entry it releases nothing and changes no state; destroyed is
\* never reset.
C15_DeleteAllTerminal ==
    /\ [](\A i \in Created :
              LET X == deleteAll(Cur, i)
              IN /\ X.worlds[i].destroyed
                 /\ i \notin X.mainScene /\ ~X.worlds[i].everythingDone
                 /\ worlds[i].everythingDone => Logged(X.log, "scene.remove", i)
                 /\ Times(X.log, "release", i) = (IF worlds[i].destroyed THEN 0 ELSE 1)
                 /\ worlds[i].destroyed => X = Note(Cur, "deleteAll", i)
                 /\ deleteAll(X, i) = Note(X, "deleteAll", i))
    /\ [][\A i \in Created : worlds[i].destroyed => worlds'[i].destroyed]_vars

\* a caller has just called deleteAll() on an entry that was destroyed
\* already: the call is in the log and nothing was released
C15_Witness ==
    \E i \in Created :
        /\ log = <<<<"deleteAll", i>>>>
        /\ worlds[i].destroyed

\* C16: an entry, not destroyed, whose preload completes after activate() was
\* called is attached in the step that completes it and on_finished is
\* invoked; activate() on a preloaded entry attaches it within the call; an
\* entry activate() was never called on is never attached.
C16_DeferredActivation ==
    /\ [][\A i \in Created :
              /\ (/\ ~preloaded(worlds[i]) /\ preloaded(worlds'[i])
                  /\ worlds[i].active /\ ~worlds[i].destroyed)
                     => /\ i \in mainScene' /\ worlds'[i].everythingDone
                        /\ Logged(log', "on_finished", i)
              /\ (/\ preloaded(worlds[i]) /\ ~worlds[i].destroyed
                  /\ world' = i
                  /\ \E dontDestroyOld \in BOOLEAN : ActivateWorld(i, dontDestroyOld))
                     => /\ i \in mainScene' /\ worlds'[i].everythingDone
                        /\ Logged(log', "on_finished", i)]_vars
    /\ [](\A i \in Created :
              ~worlds[i].destroy_old_world.set => i \notin mainScene)

\* the last sub-load of an entry activated earlier has just completed and
\* the entry was attached in the same step
C16_Witness ==
    \E i \in Created :
        /\ Before(log, <<"preloaded", i>>, <<"scene.add", i>>)
        /\ Logged(log, "on_finished", i)
        /\ i \in mainScene

(***************************************************************************)
(* SpecLoad: the loads of the entries of two frames of scene C, every      *)
(* request that was sent being answered in the end, with success or not    *)
(***************************************************************************)
NextLoad ==
    \/ \E frameId \in 0..1 : GetWorldFetch("C", frameId, MaxPending)
    \/ \E frameId \in 0..1 : GetWorldCached("C", frameId)
    \/ \E k \in 1..Len(pending) : MetaFetched(k)
    \/ \E k \in 1..Len(pending) : MetaFailed(k)
    \/ \E i \in Created : LidarLoaded(i)
    \/ \E i \in Created : AnnotationLoaded(i)
    \/ \E i \in Created, ok \in BOOLEAN : PoseLoaded(i, ok)
    \/ \E i \in Created : ImageLoaded(i, "front")

\* every sub-load of a constructed entry completes in the end
LoadsComplete ==
    \A i \in 1..MaxWorlds :
        /\ WF_vars(i \in Created /\ LidarLoaded(i))
        /\ WF_vars(i \in Created /\ AnnotationLoaded(i))
        /\ WF_vars(i \in Created /\ \E ok \in BOOLEAN : PoseLoaded(i, ok))
        /\ WF_vars(i \in Created /\ ImageLoaded(i, "front"))

SpecLoad == Init /\ [][NextLoad]_vars /\ LoadsComplete

\* C17: when every sub-load of an entry completes in the end, with success
\* or with failure, the entry becomes preloaded and the callback given to
\* getWorld is invoked, whatever failed.
C17_NoHangOnFailedLoads ==
    \A i \in 1..MaxWorlds :
        (i \in Created) ~>
            (preloaded(worlds[i]) /\ worlds[i].preloadedCount >= 1)

\* an entry whose pose request failed is preloaded and its callback invoked
C17_Witness ==
    \E i \in Created :
        /\ worlds[i].egoPosePreloaded /\ worlds[i].egoPose = NoPose
        /\ preloaded(worlds[i])
        /\ worlds[i].preloadedCount >= 1
        /\ Logged(log, "preloaded", i)

(***************************************************************************)
(* SpecXform: calcTransformMatrix and the two point conversions, on poses, *)
(* reference poses, offset cells, coordinate systems and points drawn from *)
(* small sets                                                              *)
(***************************************************************************)
XformTranslations == {<<10, 1, 0>>, <<10, 82, 0>>, <<900, -300, 2>>}
XformPoses ==
    {NoPose} \cup [translation : XformTranslations, rotation : 0..3]
XformCells == {Origin, <<1, 0, 0>>, <<-1, 1, 0>>, <<0, -1, 1>>}
XformPoints == {<<0, 0, 0>>, <<1, 2, 3>>, <<-7, 5, 0>>, <<100, -3, 1>>}

\* an entry before its transforms are computed: egoPose.egoPose, what
\* data.refEgoPose holds for its scene, its offset cell, cfg.coordinateSystem,
\* and a point of the point cloud
InitXform ==
    /\ offsetList = <<Origin>>
    /\ lastSeedOffset = Origin
    /\ offsetsAliveCount = 0
    /\ held = <<>>
    /\ worlds = [i \in 1..MaxWorlds |-> Blank]
    /\ createWorldIndex = 0
    /\ worldList = <<>>
    /\ world = NoWorld
    /\ refEgoPose = [s \in Scenes |-> NoPose]
    /\ meta = [s \in Scenes |-> FALSE]
    /\ pending = <<>>
    /\ mainScene = {}
    /\ log = <<>>
    /\ save = NoSave
    /\ \E pose \in XformPoses, t \in XformTranslations \cup {NoPose},
          cell \in XformCells, coordinateSystem \in {"utm", "lidar"},
          pos \in XformPoints :
           xform = [phase |-> "new", pose |-> pose,
                    refEgoPose |-> IF t = NoPose THEN NoPose
                                   ELSE [translation |-> t, rotation |-> 0],
                    offsetIndex |-> cell, coordinateSystem |-> coordinateSystem,
                    M |-> <<>>, pos |-> pos, scenePos |-> <<>>,
                    lidarPos |-> <<>>]

\* world.js:237-270 with data.js:97, 148-150
CalcTransformMatrix ==
    /\ xform.phase = "new"
    /\ LET refPose == IF xform.refEgoPose # NoPose THEN xform.refEgoPose
                      ELSE xform.pose
           coordinatesOffset == <<FlMul(worldGap, xform.offsetIndex[1]),
                                  FlMul(worldGap, xform.offsetIndex[2]),
                                  FlMul(worldGap, xform.offsetIndex[3])>>
       IN xform' = [xform EXCEPT
                       !.phase = "computed",
                       !.M = calcTransformMatrices(xform.pose, refPose,
                                 coordinatesOffset, xform.coordinateSystem)]
    /\ UNCHANGED <<allocVars, held, worldVars, save>>

\* world.js:344-346
LidarPosToScene ==
    /\ xform.phase = "computed"
    /\ xform' = [xform EXCEPT
                    !.phase = "scene",
                    !.scenePos = lidarPosToScene(xform.M, xform.pos)]
    /\ UNCHANGED <<allocVars, held, worldVars, save>>

\* world.js:340-342
ScenePosToLidar ==
    /\ xform.phase = "scene"
    /\ xform' = [xform EXCEPT
                    !.phase = "back",
                    !.lidarPos = scenePosToLidar(xform.M, xform.scenePos)]
    /\ UNCHANGED <<allocVars, held, worldVars, save>>

NextXform == CalcTransformMatrix \/ LidarPosToScene \/ ScenePosToLidar

SpecXform == InitXform /\ [][NextXform]_vars

\* the product of two matrices, without rounding
Product(a, b) ==
    [i \in 1..4 |-> [j \in 1..4 |->
        a[i][1] * b[1][j] + a[i][2] * b[2][j] + a[i][3] * b[3][j]
            + a[i][4] * b[4][j]]]

IsInverse(a, b) == Product(a, b) = identity /\ Product(b, a) = identity

\* the four matrices are computed
Transformed == xform.phase \in {"computed", "scene", "back"}

InversesExact ==
    Transformed =>
        /\ IsInverse(xform.M.trans_scene_lidar, xform.M.trans_lidar_scene)
        /\ IsInverse(xform.M.trans_utm_lidar, xform.M.trans_lidar_utm)

\* the distance between neighbouring floating-point numbers at magnitude a
Ulp(a) == IF Bits(a) <= MantissaBits THEN 0 ELSE Pow2(Bits(a) - MantissaBits)

\* the largest magnitude among the coordinates of the point and of its image
Magnitude ==
    LET all == {Abs(xform.pos[k]) : k \in 1..3}
                   \cup {Abs(xform.scenePos[k]) : k \in 1..3}
    IN CHOOSE a \in all : \A b \in all : b <= a

PreloadRequests == {<<"A", 0>>, <<"A", MaxWorldNumber \div 2 + 1>>,
                    <<"A", MaxWorldNumber + 1>>, <<"B", 0>>}

InitPreload ==
    /\ offsetList = <<Origin>>
    /\ lastSeedOffset = Origin
    /\ offsetsAliveCount = 0
    /\ held = <<>>
    /\ worlds = [i \in 1..PreloadSlots |-> Blank]
    /\ createWorldIndex = 0
    /\ worldList = <<>>
    /\ world = NoWorld
    /\ refEgoPose = [s \in Scenes |-> NoPose]
    /\ meta = [s \in Scenes |-> FALSE]
    /\ pending = <<>>
    /\ mainScene = {}
    /\ log = <<>>
    /\ xform = NoXform
    /\ save = NoSave

\* the entries callers got from getWorld
Callers == Created \cap 1..MaxWorlds

NextPreload ==
    \/ \E r \in PreloadRequests : GetWorldFetch(r[1], r[2], MaxPending)
    \/ \E r \in PreloadRequests : GetWorldCached(r[1], r[2])
    \/ \E k \in 1..Len(pending) : MetaFetched(k)
    \/ \E sceneName \in ManagerScenes, currentWorld \in Callers,
          enablePreload \in BOOLEAN :
           PreloadScene(sceneName, currentWorld, enablePreload)

SpecPreload == InitPreload /\ [][NextPreload]_vars

\* the registered entries of a frame of a scene
RegisteredFor(list, ws, sceneName, f) ==
    {i \in Range(list) : ws[i].scene = sceneName /\ ws[i].frame = f}

\* C11: with cfg.enablePreload true, after preloadScene(scene, current)
\* every frame of the scene with index in [start, end), start =
\* max(0, idx(current) - MaxWorldNumber/2) and end = min(frameCount, start +
\* MaxWorldNumber), has a registered entry and no entry was created for an
\* index outside the range; with cfg.enablePreload false the call creates no
\* entry and allocates no offset cell.
C11_PreloadWindow ==
    [][\A currentWorld \in Callers :
          Logged(log', "preloadScene", currentWorld) =>
              \A enablePreload \in BOOLEAN :
                  LET sceneName == worlds[currentWorld].scene
                      start == Max(0, worlds[currentWorld].frame
                                          - MaxWorldNumber \div 2)
                      end == Min(FrameCount(sceneName), start + MaxWorldNumber)
                  IN PreloadScene(sceneName, currentWorld, enablePreload) =>
                         IF enablePreload
                         THEN /\ \A f \in start..(end - 1) :
                                     RegisteredFor(worldList', worlds',
                                                   sceneName, f) # {}
                              /\ \A i \in (createWorldIndex + 1)..createWorldIndex' :
                                     /\ worlds'[i].scene = sceneName
                                     /\ worlds'[i].frame \in start..(end - 1)
                                     /\ i \in Range(worldList')
                         ELSE /\ createWorldIndex' = createWorldIndex
                              /\ offsetsAliveCount' <= offsetsAliveCount]_vars

\* a window strictly inside scene A has been preloaded: its frames are
\* registered, the frames before and after it are not
C11_Witness ==
    \E currentWorld \in Callers :
        /\ Logged(log, "preloadScene", currentWorld)
        /\ worlds[currentWorld].scene = "A"
        /\ worlds[currentWorld].frame = MaxWorldNumber \div 2 + 1
        /\ createWorldIndex >= MaxWorldNumber
        /\ \A f \in 1..MaxWorldNumber :
               RegisteredFor(worldList, worlds, "A", f) # {}
        /\ RegisteredFor(worldList, worlds, "A", 0) = {}
        /\ RegisteredFor(worldList, worlds, "A", MaxWorldNumber + 1) = {}

\* C29: every entry preloadScene(scene, current) creates has a frame index
\* at most MaxWorldNumber away from that of current, so a deleteDistantWorlds
\* (current) that follows leaves it registered and not destroyed; this
\* includes windows clamped at the start or the end of the scene.
C29_PreloadWindowInsideKeepRange ==
    [][\A currentWorld \in Callers :
          Logged(log', "preloadScene", currentWorld) =>
              \E after \in {deleteDistantWorlds(Cur', currentWorld)} :
                  \A i \in (createWorldIndex + 1)..createWorldIndex' :
                      /\ Abs(worlds'[i].frame - worlds'[currentWorld].frame)
                             <= MaxWorldNumber
                      /\ i \in Range(after.worldList)
                      /\ ~after.worlds[i].destroyed
                      /\ ~Logged(after.log, "evict", i)]_vars

\* the window of the first frame of scene A, clamped at the start of the
\* scene, has been preloaded: its farthest entry is MaxWorldNumber - 1 frames
\* from the current one
C29_Witness ==
    \E currentWorld \in Callers :
        /\ log = <<<<"preloadScene", currentWorld>>>>
        /\ worlds[currentWorld].scene = "A"
        /\ worlds[currentWorld].frame = 0
        /\ \E i \in Created \ Callers :
               /\ i \in Range(worldList)
               /\ worlds[i].frame = MaxWorldNumber - 1
        /\ RegisteredFor(worldList, worlds, "A", MaxWorldNumber) = {}

\* the offset translation O of the entry: worldGap times its cell
OffsetTranslation ==
    <<worldGap * xform.offsetIndex[1], worldGap * xform.offsetIndex[2],
      worldGap * xform.offsetIndex[3]>>

\* matrix m turns as matrix r does and then translates by t
TurnsThenTranslates(m, r, t) ==
    /\ \A i, j \in 1..3 : m[i][j] = r[i][j]
    /\ \A i \in 1..3 : m[i][4] = t[i]
    /\ m[4] = <<0, 0, 0, 1>>

\* C24: with pose data and cfg.coordinateSystem "utm", trans_lidar_scene is
\* the offset translation O applied after trans_lidar_utm; with pose data and
\* any other mode it is O alone; without pose data trans_lidar_utm is the
\* identity and trans_lidar_scene is O alone, in either mode.
C24_TransformByMode ==
    Transformed =>
        LET M == xform.M
            O == OffsetTranslation
        IN IF xform.pose = NoPose
           THEN /\ M.trans_lidar_utm = identity
                /\ TurnsThenTranslates(M.trans_lidar_scene, identity, O)
           ELSE IF xform.coordinateSystem = "utm"
           THEN TurnsThenTranslates(M.trans_lidar_scene, M.trans_lidar_utm,
                    [i \in 1..3 |-> Fl(O[i] + M.trans_lidar_utm[i][4])])
           ELSE TurnsThenTranslates(M.trans_lidar_scene, identity, O)

\* the matrices of a turned entry away from its reference pose, in a cell
\* other than the origin, in "utm" mode
C24_Witness ==
    /\ xform.phase = "computed"
    /\ xform.pose # NoPose /\ xform.pose.rotation = 1
    /\ xform.coordinateSystem = "utm"
    /\ xform.offsetIndex = <<-1, 1, 0>>
    /\ xform.M.trans_lidar_utm[2][4] # 0
    /\ xform.M.trans_lidar_scene # xform.M.trans_lidar_utm
    /\ xform.M.trans_lidar_scene # setPosition(identity, OffsetTranslation)

(***************************************************************************)
(* SpecSave: the save path of save.js over two frames of scene A, with     *)
(* cfg.disableLabels false; the editor edits boxes, the save button calls  *)
(* saveWorldList(data.worldList), the delay timer expires, the server      *)
(* answers the requests in flight in any order                             *)
(***************************************************************************)
SaveRequests == {<<"A", 0>>, <<"A", 1>>}

\* save.js:55-58  worldList.forEach(w => ... pendingSaveList.push(w))
RECURSIVE pushEach(_, _)
pushEach(pendingSaveList, list) ==
    IF list = <<>> THEN pendingSaveList
    ELSE pushEach(IF Head(list) \in Range(pendingSaveList) THEN pendingSaveList
                  ELSE Append(pendingSaveList, Head(list)),
                  Tail(list))

\* save.js:54-86  up to the arming of the timer
saveWorldList(S, list) ==
    [S EXCEPT !.pendingSaveList = pushEach(@, list),
              !.saveDelayTimer = TRUE]

\* save.js:97-103  what the request carries for entry i
toBoxAnnotations(S, i) == S.edits[i]

\* save.js:89-150  up to xhr.send
doSaveWorldList(S, list) ==
    [S EXCEPT !.requests =
        Append(@, [worldList |-> list,
                   ann |-> [k \in 1..Len(list) |-> toBoxAnnotations(S, list[k])]])]

\* annotation.js: an edit of a box changes the boxes and sets modified
EditBox(i) ==
    /\ worlds[i].annotationPreloaded
    /\ ~worlds[i].destroyed
    /\ save.edits[i] < MaxEdits
    /\ worlds' = [worlds EXCEPT ![i].modified = TRUE]
    /\ save' = [save EXCEPT !.edits[i] = @ + 1]
    /\ log' = <<<<"edit", i>>>>
    /\ UNCHANGED <<allocVars, held, xform, createWorldIndex, worldList, world,
                   refEgoPose, meta, pending, mainScene>>

\* part_007:164-166 and save.js:54-86  the save button
SaveWorldList ==
    /\ save' = saveWorldList(save, worldList)
    /\ log' = <<>>
    /\ UNCHANGED <<allocVars, held, xform, worlds, createWorldIndex, worldList,
                   world, refEgoPose, meta, pending, mainScene>>

\* save.js:64-83  the delay expires; with nothing pending line 69 throws and
\* the callback ends there
SaveDelayExpired ==
    /\ save.saveDelayTimer
    /\ IF save.pendingSaveList = <<>>
       THEN /\ save' = [save EXCEPT !.saveDelayTimer = FALSE]
            /\ log' = <<<<"throw", NoWorld>>>>
       ELSE /\ Len(save.requests) < MaxRequests
            /\ save' = [doSaveWorldList(save, save.pendingSaveList) EXCEPT
                           !.saveDelayTimer = FALSE,
                           !.pendingSaveList = <<>>]
            /\ log' = <<<<"send", Len(save.requests) + 1>>>>
    /\ UNCHANGED <<allocVars, held, xform, worlds, createWorldIndex, worldList,
                   world, refEgoPose, meta, pending, mainScene>>

\* annotation.js: resetModified()
resetModified(w) == [w EXCEPT !.modified = FALSE]

\* save.js:122-141  request k is answered, with status 200 or another
SaveResponse(k, ok) ==
    LET r == save.requests[k]
        In(i) == {n \in 1..Len(r.worldList) : r.worldList[n] = i}
    IN /\ worlds' = IF ok
                    THEN [i \in DOMAIN worlds |->
                             IF In(i) # {} THEN resetModified(worlds[i])
                             ELSE worlds[i]]
                    ELSE worlds
       /\ save' = [save EXCEPT
                      !.requests = RemoveAt(@, k),
                      !.saved = IF ok
                                THEN [i \in DOMAIN @ |->
                                         IF In(i) # {}
                                         THEN Max(@[i], r.ann[CHOOSE n \in In(i) : TRUE])
                                         ELSE @[i]]
                                ELSE @]
       /\ log' = <<<<IF ok THEN "saved" ELSE "save failed", k>>>>
       /\ UNCHANGED <<allocVars, held, xform, createWorldIndex, worldList, world,
                      refEgoPose, meta, pending, mainScene>>

NextSave ==
    \/ \E r \in SaveRequests : GetWorldFetch(r[1], r[2], MaxPending)
    \/ \E r \in SaveRequests : GetWorldCached(r[1], r[2])
    \/ \E k \in 1..Len(pending) : MetaFetched(k)
    \/ \E i \in Created : AnnotationLoaded(i)
    \/ \E i \in Created : EditBox(i)
    \/ SaveWorldList
    \/ SaveDelayExpired
    \/ \E k \in 1..Len(save.requests), ok \in BOOLEAN : SaveResponse(k, ok)

SpecSave == Init /\ [][NextSave]_vars

\* request k carries every edit made to entry i
Carries(k, i) ==
    \E n \in 1..Len(save.requests[k].worldList) :
        /\ save.requests[k].worldList[n] = i
        /\ save.requests[k].ann[n] = save.edits[i]

\* C31: the save path clears the modified flag of an entry only when every
\* edit made to the entry was contained in a request answered with status
\* 200; an entry edited after a request was sent is still flagged modified
\* after the response; a failed request leaves every modified flag as it was.
C31_SavedMeansPersisted ==
    [][\A i \in Created :
          /\ (worlds[i].modified /\ ~worlds'[i].modified) =>
                 save'.saved[i] = save'.edits[i]
          /\ \A k \in 1..Len(save.requests) :
                 /\ (SaveResponse(k, TRUE) /\ worlds[i].modified
                         /\ ~Carries(k, i) /\ save.saved[i] < save.edits[i]) =>
                        worlds'[i].modified
                 /\ SaveResponse(k, FALSE) =>
                        worlds'[i].modified = worlds[i].modified]_vars

\* the parts of C31 that the save path keeps: only a response with status
\* 200 clears a modified flag, and only of an entry of its request; a failed
\* request leaves every modified flag as it was.
C31_ClearedBySuccessOnly ==
    [][\A i \in Created :
          /\ (worlds[i].modified /\ ~worlds'[i].modified) =>
                 \E k \in 1..Len(save.requests) :
                     /\ SaveResponse(k, TRUE)
                     /\ i \in Range(save.requests[k].worldList)
          /\ \A k \in 1..Len(save.requests) :
                 SaveResponse(k, FALSE) =>
                     worlds'[i].modified = worlds[i].modified]_vars

(***************************************************************************)
(* SpecGet: concurrent getWorld calls, _doPreload and scene purges         *)
(***************************************************************************)
NextGet ==
    \/ \E sceneName \in ManagerScenes, frameId \in 0..1 :
           GetWorldFetch(sceneName, frameId, MaxConcurrent)
    \/ \E sceneName \in ManagerScenes, frameId \in 0..1 :
           GetWorldCached(sceneName, frameId)
    \/ \E k \in 1..Len(pending) : MetaFetched(k)
    \/ \E k \in 1..Len(pending) : MetaFailed(k)
    \/ \E sceneName \in ManagerScenes, startIndex \in 0..1, endIndex \in 1..2 :
           DoPreload(sceneName, startIndex, endIndex)
    \/ \E keepScene \in ManagerScenes : DeleteOtherWorldsExcept(keepScene)

SpecGet == Init /\ [][NextGet]_vars

\* C5: worldList holds at most one entry per (sceneName, frameId), and a
\* getWorld call that finds the entry registered returns it and creates none.
C5_EntryIdentityUnique ==
    /\ [](\A p, q \in 1..Len(worldList) :
              p # q => ~SameKey(worlds[worldList[p]], worlds[worldList[q]]))
    /\ [][\A w \in 1..createWorldIndex' :
              (/\ Logged(log', "return", w)
               /\ \E i \in Range(worldList) : SameKey(worlds[i], worlds'[w]))
                  => w \in Range(worldList) /\ createWorldIndex' = createWorldIndex]_vars

\* getWorld has just returned an entry registered earlier while another
\* getWorld call for the same scene is suspended at the metadata await
C5_Witness ==
    \E w \in Created :
        /\ Logged(log, "return", w)
        /\ w < createWorldIndex
        /\ \E k \in 1..Len(pending) : pending[k].scene = worlds[w].scene

\* C12: when the metadata fetch of a suspended getWorld fails, the caller
\* gets the failure and the cache is unchanged: no entry is added, no cell is
\* allocated and no metadata is stored.
C12_MetadataFailureCreatesNothing ==
    [][\A k \in 1..Len(pending) :
          MetaFailed(k) =>
              /\ Logged(log', "throw", NoWorld)
              /\ ~\E w \in 1..createWorldIndex' : Logged(log', "return", w)
              /\ UNCHANGED <<worldList, worlds, createWorldIndex, offsetList,
                             lastSeedOffset, offsetsAliveCount, meta>>]_vars

\* a getWorld call has just failed in a cache that holds an entry, for a
\* scene whose metadata is still not cached
C12_Witness ==
    /\ Logged(log, "throw", NoWorld)
    /\ worldList # <<>>
    /\ \E s \in ManagerScenes : ~meta[s]

\* C20: at most one metadata fetch is issued per scene: no two suspended
\* getWorld calls wait on a fetch for the same scene, and none waits on a
\* fetch for a scene whose metadata is already stored (its completion would
\* replace it).
C20_MetadataFetchedOnce ==
    /\ \A k, m \in 1..Len(pending) :
           k # m => pending[k].scene # pending[m].scene
    /\ \A k \in 1..Len(pending) : ~meta[pending[k].scene]

(***************************************************************************)
(* SpecAlloc: a client that allocates cells and returns cells it holds;    *)
(* the log keeps the call and the size of the pool it found                *)
(***************************************************************************)
InitAlloc == Init

\* data.js:56-85  a client that holds fewer than cap cells allocates one
AllocateUpTo(cap) ==
    /\ Len(held) < cap
    /\ LET r == allocateOffset(Cur)
       IN /\ offsetList' = r.a.offsetList
          /\ lastSeedOffset' = r.a.lastSeedOffset
          /\ offsetsAliveCount' = r.a.offsetsAliveCount
          /\ held' = Append(held, r.cell)
    /\ log' = <<<<"allocateOffset", Len(offsetList)>>>>
    /\ UNCHANGED <<xform, save, worlds, createWorldIndex, worldList, world, refEgoPose,
                   meta, pending, mainScene>>

Allocate == AllocateUpTo(MaxAlive)

\* data.js:87-90  the client returns the k-th cell it holds
ReturnCell(k) ==
    LET a == returnOffset(Cur, held[k])
    IN /\ offsetList' = a.offsetList
       /\ lastSeedOffset' = a.lastSeedOffset
       /\ offsetsAliveCount' = a.offsetsAliveCount
       /\ held' = RemoveAt(held, k)
       /\ log' = <<<<"returnOffset", Len(offsetList)>>>>
       /\ UNCHANGED <<xform, save, worlds, createWorldIndex, worldList, world,
                      refEgoPose, meta, pending, mainScene>>

Return == \E k \in 1..Len(held) : ReturnCell(k)

NextAlloc == Allocate \/ Return

SpecAlloc == InitAlloc /\ [][NextAlloc]_vars

(***************************************************************************)
(* SpecRing: a client that holds enough cells for four rings to be         *)
(* generated, and returns the cell it got last                             *)
(***************************************************************************)
NextRing ==
    \/ AllocateUpTo(MaxRingAlive)
    \/ held # <<>> /\ ReturnCell(Len(held))

SpecRing == InitAlloc /\ [][NextRing]_vars

\* the Chebyshev radius of a cell
Radius(c) == Max(Abs(c[1]), Abs(c[2]))

\* the step is a call of allocateOffset
Allocates == log' # <<>> /\ log'[1][1] = "allocateOffset"

\* C25: every allocateOffset() returns a 3-tuple of integers; a call that
\* finds the free pool empty generates a ring from the next seed, whose
\* radius max(|x|,|y|) is not smaller than that of the ring generated before
\* it since the last reset; the z component of every generated cell is 0.
C25_AllocationNeverFails ==
    [][Allocates =>
          LET cell == held'[Len(held')]
              generates == offsetsAliveCount # 0 /\ offsetList = <<>>
          IN /\ Len(held') = Len(held) + 1
             /\ DOMAIN cell = 1..3
             /\ \A k \in 1..3 : cell[k] \in Int
             /\ cell[3] = 0
             /\ generates =>
                    /\ lastSeedOffset' # lastSeedOffset
                    /\ Radius(lastSeedOffset') >= Radius(lastSeedOffset)
                    /\ Len(offsetList') >= 1
                    /\ \A c \in Range(offsetList') \cup {cell} :
                           /\ Radius(c) = Radius(lastSeedOffset')
                           /\ c[3] = 0
             /\ (~generates /\ offsetsAliveCount # 0) =>
                    lastSeedOffset' = lastSeedOffset]_vars

\* the ring of radius 2 has been generated after two rings of radius 1, by a
\* call that found the pool empty
C25_Witness ==
    /\ log = <<<<"allocateOffset", 0>>>>
    /\ Radius(lastSeedOffset) = 2
    /\ Len(held) = 2 + 8 + 8
    /\ Radius(held[Len(held)]) = 2
    /\ \E k \in 1..Len(held) : held[k] = <<1, 1, 0>>

\* C13: a call of allocateOffset that finds offsetsAliveCount = 0 resets the
\* ring state and returns the origin cell.
C13_FirstCellDeterminism ==
    [][(Allocate /\ offsetsAliveCount = 0) =>
          /\ held'[Len(held')] = Origin
          /\ lastSeedOffset' = Origin
          /\ offsetList' = <<>>
          /\ offsetsAliveCount' = 1]_vars

\* allocateOffset has just returned the origin after every cell of a
\* generated ring had been returned to the pool
C13_Witness ==
    /\ held = <<Origin>>
    /\ \E n \in 2..(8 * MaxAlive) : log = <<<<"allocateOffset", n>>>>

\* C1: no two cells that are currently allocated (handed out and not yet
\* returned) are equal as integer 3-tuples.
C1_OffsetDisjointness ==
    \A i, j \in 1..Len(held) : i # j => held[i] # held[j]

====
